---- MODULE Spec2Model ----
(***************************************************************************)
(* BinReader (main.go): the --php path of main.                            *)
(*   extractTopLevelKeys  byte-level scan for the top-level key order      *)
(*   phpserialize.Unmarshal  the decoder (external library)                *)
(*   printMapToBuffer     the ordered printer                              *)
(* A byte string is a sequence of one-character strings.  Positions are    *)
(* 0-based, as in the Go source.                                           *)
(***************************************************************************)
EXTENDS Integers, Sequences, FiniteSets, TLC

VARIABLES
    fileData,     \* the bytes read from the file (main.go:157)
    pc,           \* position of main / extractTopLevelKeys
    content,      \* extractTopLevelKeys: content (main.go:37)
    i,            \* extractTopLevelKeys: scan position (main.go:39)
    keys,         \* extractTopLevelKeys: keys collected so far (main.go:38)
    iters,        \* number of completed iterations of the scan loop
    tested,       \* positions of content at which the marker test ran
    payload,      \* positions of content inside a recorded key payload
    retKeys,      \* extractTopLevelKeys: returned key list
    retErr,       \* extractTopLevelKeys: returned error ("" is nil)
    topKeys,      \* main: topKeys (main.go:270)
    parsedData,   \* main: parsedData (main.go:275), a sequence of entries
    decodeOk,     \* main: err == nil after Unmarshal (main.go:276)
    printArgs,    \* key orders main has passed to printMapToBuffer
    out,          \* main: outputBuffer items written by the --php block
    source        \* the value the input was serialized from (NoValue if none)

vars == <<fileData, pc, content, i, keys, iters, tested, payload,
          retKeys, retErr, topKeys, parsedData, decodeOk, printArgs, out,
          source>>

(***************************************************************************)
(* Bounds of the input space.                                              *)
(***************************************************************************)
MaxEntries == 2   \* entries of a generated top-level container
MaxNested == 2    \* entries of a generated nested container
MaxNum == 2       \* characters of a generated length field
MaxTail == 3      \* characters following a generated length field
MaxBrace == 4     \* length of a generated delimiter/marker string
MaxOrder == 2     \* keys of a key order handed directly to printMapToBuffer
MaxData == 2      \* entries of a map handed directly to printMapToBuffer

(***************************************************************************)
(* Go string primitives.                                                   *)
(***************************************************************************)
At(s, k) == s[k + 1]

\* s[lo:hi] is legal exactly when 0 <= lo <= hi <= len(s)
SliceOk(s, lo, hi) == 0 <= lo /\ lo <= hi /\ hi <= Len(s)

Slice(s, lo, hi) == SubSeq(s, lo + 1, hi)

\* strings.Index(s, c) for a one-byte needle; -1 if absent
Index(s, c) ==
    IF \E k \in 1..Len(s) : s[k] = c
    THEN (CHOOSE k \in 1..Len(s) : s[k] = c /\ \A m \in 1..(k - 1) : s[m] # c) - 1
    ELSE -1

\* strings.LastIndex(s, c) for a one-byte needle; -1 if absent
LastIndex(s, c) ==
    IF \E k \in 1..Len(s) : s[k] = c
    THEN (CHOOSE k \in 1..Len(s) : s[k] = c /\ \A m \in (k + 1)..Len(s) : s[m] # c) - 1
    ELSE -1

\* the inner loop "for j < len(s) && s[j] != c { j++ }" started at from
ScanTo(s, c, from) ==
    IF \E k \in from..(Len(s) - 1) : At(s, k) = c
    THEN CHOOSE k \in from..(Len(s) - 1) :
             At(s, k) = c /\ \A m \in from..(k - 1) : At(s, m) # c
    ELSE IF from > Len(s) THEN from ELSE Len(s)

Digits == <<"0", "1", "2", "3", "4", "5", "6", "7", "8", "9">>

IsDigit(c) == \E d \in 1..10 : Digits[d] = c

DigitVal(c) == (CHOOSE d \in 1..10 : Digits[d] = c) - 1

RECURSIVE DigitsVal(_)
DigitsVal(s) ==
    IF s = <<>> THEN 0
    ELSE DigitsVal(SubSeq(s, 1, Len(s) - 1)) * 10 + DigitVal(s[Len(s)])

\* strconv.Atoi: an optional sign, then one or more decimal digits
Atoi(s) ==
    LET signed == s # <<>> /\ s[1] \in {"-", "+"}
        body == IF signed THEN Tail(s) ELSE s
        valid == body # <<>> /\ \A k \in 1..Len(body) : IsDigit(body[k])
    IN  IF ~valid THEN [ok |-> FALSE, n |-> 0]
        ELSE [ok |-> TRUE,
              n |-> IF signed /\ s[1] = "-" THEN 0 - DigitsVal(body)
                    ELSE DigitsVal(body)]

RECURSIVE NatText(_)
NatText(n) ==
    IF n < 10 THEN <<Digits[n + 1]>>
    ELSE NatText(n \div 10) \o <<Digits[(n % 10) + 1]>>

\* decimal rendering of an integer (fmt %d / %v of an int)
Itoa(n) == IF n < 0 THEN <<"-">> \o NatText(0 - n) ELSE NatText(n)

(***************************************************************************)
(* Decoded values (interface{} as produced by the decoder): a text, an     *)
(* integer, or an associative container.  A container is held as a         *)
(* sequence of entries with pairwise distinct keys; the sequence order is  *)
(* never observable (Go maps are unordered): it is read only through       *)
(* HasKey, Lookup and Orders.                                              *)
(***************************************************************************)
TextVal(s) == [t |-> "s", n |-> 0, s |-> s, m |-> <<>>]

IntVal(n) == [t |-> "i", n |-> n, s |-> <<>>, m |-> <<>>]

AssocVal(m) == [t |-> "a", n |-> 0, s |-> <<>>, m |-> m]

NoValue == [t |-> "none", n |-> 0, s |-> <<>>, m |-> <<>>]

\* the "ok" of data[key]
HasKey(data, key) == \E e \in 1..Len(data) : data[e].k = key

\* the value of data[key]
Lookup(data, key) == data[CHOOSE e \in 1..Len(data) : data[e].k = key].v

\* data[key] = v on a Go map: a repeated key overwrites
MapPut(data, key, v) ==
    IF HasKey(data, key)
    THEN [e \in 1..Len(data) |->
             IF data[e].k = key THEN [k |-> key, v |-> v] ELSE data[e]]
    ELSE Append(data, [k |-> key, v |-> v])

\* the text fmt's %v verb prints for a text or an integer
Display(v) == IF v.t = "i" THEN Itoa(v.n) ELSE v.s

\* fmt.Sprintf("%v", key): always a string
Sprintf(key) == TextVal(Display(key))

(***************************************************************************)
(* The serialized format, as the decoder reads it:                         *)
(*   i:<int>;    s:<len>:"<bytes>";    a:<count>:{<key><value>...}         *)
(***************************************************************************)
RECURSIVE Serialize(_)
RECURSIVE SerializeEntries(_)
Serialize(v) ==
    IF v.t = "i" THEN <<"i", ":">> \o Itoa(v.n) \o <<";">>
    ELSE IF v.t = "s"
    THEN <<"s", ":">> \o Itoa(Len(v.s)) \o <<":", "\"">> \o v.s \o <<"\"", ";">>
    ELSE <<"a", ":">> \o Itoa(Len(v.m)) \o <<":", "{">>
             \o SerializeEntries(v.m) \o <<"}">>

SerializeEntries(m) ==
    IF m = <<>> THEN <<>>
    ELSE Serialize(m[1].k) \o Serialize(m[1].v) \o SerializeEntries(Tail(m))

ParseFail == [ok |-> FALSE, v |-> NoValue, next |-> 0]

\* one value starting at position p: [ok, v, next]
RECURSIVE ParseValue(_, _)
RECURSIVE ParseEntries(_, _, _, _)
ParseValue(s, p) ==
    IF p + 1 >= Len(s) \/ At(s, p + 1) # ":" THEN ParseFail
    ELSE IF At(s, p) = "i" THEN
        LET q == ScanTo(s, ";", p + 2)
            r == Atoi(Slice(s, p + 2, q))
        IN  IF q >= Len(s) \/ ~r.ok THEN ParseFail
            ELSE [ok |-> TRUE, v |-> IntVal(r.n), next |-> q + 1]
    ELSE IF At(s, p) = "s" THEN
        LET q == ScanTo(s, ":", p + 2)
            r == Atoi(Slice(s, p + 2, q))
        IN  IF q >= Len(s) \/ ~r.ok \/ r.n < 0 THEN ParseFail
            ELSE IF q + r.n + 3 >= Len(s) THEN ParseFail
            ELSE IF At(s, q + 1) # "\"" \/ At(s, q + 2 + r.n) # "\""
                    \/ At(s, q + 3 + r.n) # ";" THEN ParseFail
            ELSE [ok |-> TRUE, v |-> TextVal(Slice(s, q + 2, q + 2 + r.n)),
                  next |-> q + 4 + r.n]
    ELSE IF At(s, p) = "a" THEN
        LET q == ScanTo(s, ":", p + 2)
            r == Atoi(Slice(s, p + 2, q))
        IN  IF q >= Len(s) \/ ~r.ok \/ r.n < 0 THEN ParseFail
            ELSE IF q + 1 >= Len(s) \/ At(s, q + 1) # "{" THEN ParseFail
            ELSE ParseEntries(s, q + 2, r.n, <<>>)
    ELSE ParseFail

\* count key/value pairs starting at p, then the closing delimiter
ParseEntries(s, p, count, acc) ==
    IF count = 0
    THEN IF p < Len(s) /\ At(s, p) = "}"
         THEN [ok |-> TRUE, v |-> AssocVal(acc), next |-> p + 1]
         ELSE ParseFail
    ELSE LET key == ParseValue(s, p)
         IN  IF ~key.ok \/ key.v.t = "a" THEN ParseFail
             ELSE LET val == ParseValue(s, key.next)
                  IN  IF ~val.ok THEN ParseFail
                      ELSE ParseEntries(s, val.next, count - 1,
                                        MapPut(acc, key.v, val.v))

\* phpserialize.Unmarshal(data, &map): the top-level value must be a container
Unmarshal(data) ==
    LET r == ParseValue(data, 0)
    IN  IF r.ok /\ r.v.t = "a" THEN r ELSE ParseFail

(***************************************************************************)
(* printMapToBuffer.  A written line is a record; the buffer is a sequence *)
(* of lines.  Nested containers are iterated in Go map order, which is     *)
(* unspecified: printMapToBuffer yields the set of buffers it can write.   *)
(***************************************************************************)
Line(kind, indent, key, val, err) ==
    [kind |-> kind, indent |-> indent, key |-> key, val |-> val, err |-> err]

\* the lookup without its "continue" branch: an absent key prints an empty value
Resolve_NoSkip(data, key) ==
    IF HasKey(data, key) THEN [ok |-> TRUE, v |-> Lookup(data, key)]
    ELSE IF HasKey(data, Sprintf(key))
    THEN [ok |-> TRUE, v |-> Lookup(data, Sprintf(key))]
    ELSE [ok |-> TRUE, v |-> TextVal(<<>>)]

\* the lookup without its string-form fallback
Resolve_ExactOnly(data, key) ==
    IF HasKey(data, key) THEN [ok |-> TRUE, v |-> Lookup(data, key)]
    ELSE [ok |-> FALSE, v |-> NoValue]

\* the lookup of main.go:84-90: [ok, v]
Resolve(data, key) ==
    IF HasKey(data, key) THEN [ok |-> TRUE, v |-> Lookup(data, key)]
    ELSE IF HasKey(data, Sprintf(key))
    THEN [ok |-> TRUE, v |-> Lookup(data, Sprintf(key))]
    ELSE [ok |-> FALSE, v |-> NoValue]

\* "for nk := range v": every order of the keys of v
Orders(data) ==
    {[e \in 1..Len(data) |-> data[p[e]].k] :
        p \in {q \in [1..Len(data) -> 1..Len(data)] :
                  \A a, b \in 1..Len(data) : a # b => q[a] # q[b]}}

RECURSIVE printMapToBuffer(_, _, _)
printMapToBuffer(data, indent, keyOrder) ==
    IF keyOrder = <<>> THEN {<<>>}
    ELSE LET key == Head(keyOrder)
             r == Resolve(data, key)
             rest == printMapToBuffer(data, indent, Tail(keyOrder))
         IN  IF ~r.ok THEN rest
             ELSE IF r.v.t = "a"
             THEN {<<Line("map", indent, Display(key), <<>>, "")>> \o nested \o b :
                      nested \in UNION {printMapToBuffer(r.v.m, indent + 1, o) :
                                           o \in Orders(r.v.m)},
                      b \in rest}
             ELSE {<<Line("entry", indent, Display(key), Display(r.v), "")>> \o b :
                      b \in rest}

(***************************************************************************)
(* Inputs.                                                                 *)
(***************************************************************************)
SeqsUpTo(S, n) == UNION {[1..k -> S] : k \in 0..n}

KeyPool == {TextVal(t) : t \in {<<"a">>, <<"s", ":">>}} \cup {IntVal(5)}

NestedNames == <<"a", "b", "c", "d">>

\* nested containers with 0..MaxNested entries
NestedPool ==
    {AssocVal([e \in 1..k |-> [k |-> TextVal(<<NestedNames[e]>>), v |-> IntVal(1)]]) :
        k \in 0..MaxNested}

ScalarPool == {TextVal(t) : t \in {<<"a">>, <<"5">>}} \cup {IntVal(1)}

\* entry lists of scalar values, and entry lists led by one nested container
EntryLists ==
    SeqsUpTo([k : KeyPool, v : ScalarPool], MaxEntries)
        \cup {<<[k |-> key, v |-> nested]>> \o m :
                 key \in KeyPool, nested \in NestedPool,
                 m \in SeqsUpTo([k : KeyPool, v : ScalarPool], 1)}

\* a:2:{s:3:"foo";s:3:"bar";s:3:"baz";i:42;}
Example ==
    AssocVal(<<[k |-> TextVal(<<"f", "o", "o">>), v |-> TextVal(<<"b", "a", "r">>)],
               [k |-> TextVal(<<"b", "a", "z">>), v |-> IntVal(42)]>>)

Sources ==
    {AssocVal(m) : m \in EntryLists}
        \cup {Example, TextVal(<<"{">>), IntVal(5)}

\* {s:<num>:<tail>}
LengthInputs ==
    {<<"{", "s", ":">> \o num \o <<":">> \o tail \o <<"}">> :
        num \in SeqsUpTo({"-", "1", "x"}, MaxNum),
        tail \in SeqsUpTo({"\"", "a", ";"}, MaxTail)}

BraceInputs == SeqsUpTo({"{", "}", "s", ":"}, MaxBrace)

\* a well-formed container followed by s:<num>:}
TrailingInputs ==
    {Serialize(AssocVal(m)) \o <<"s", ":">> \o num \o <<":", "}">> :
        m \in SeqsUpTo([k : {TextVal(<<"a">>)}, v : {IntVal(1)}], 1),
        num \in SeqsUpTo({"+", "1", "x"}, MaxNum)}

\* arguments for a direct call of printMapToBuffer
PrintKeys == {IntVal(5), TextVal(<<"5">>), TextVal(<<"a">>)}

PrintData ==
    {m \in SeqsUpTo([k : PrintKeys, v : {IntVal(1), TextVal(<<"x">>)}], MaxData) :
        \A a, b \in 1..Len(m) : a # b => m[a].k # m[b].k}

PrintOrders == SeqsUpTo(PrintKeys, MaxOrder)

(***************************************************************************)
(* extractTopLevelKeys                                                     *)
(***************************************************************************)
\* main.go:42
Marker(c, p) == At(c, p) = "s" /\ p + 1 < Len(c) /\ At(c, p + 1) = ":"

\* the advance without the key payload
Advance_LengthOnly(j, n) == j + 2

\* main.go:68
Advance(j, n) == j + 2 + n + 2

\* the delimiter test without the order check
Malformed_NoOrder(start, end) == start = -1 \/ end = -1

\* main.go:34
Malformed(start, end) == start = -1 \/ end = -1 \/ end <= start

\* main.go:62
Exceeds(c, j, n) == j + 2 + n > Len(c)

\* the conversion error of main.go:53-54
LengthErr(numStr) == ~Atoi(numStr).ok

Return(ks, err) ==
    /\ retKeys' = ks
    /\ retErr' = err
    /\ pc' = "returned"

\* main.go:32-39
Begin ==
    /\ pc = "extract"
    /\ LET start == Index(fileData, "{")
           end == LastIndex(fileData, "}")
       IN  IF Malformed(start, end)
           THEN /\ Return(<<>>, "MalformedContainer")
                /\ UNCHANGED <<content, i, keys>>
           ELSE /\ content' = Slice(fileData, start + 1, end)
                /\ keys' = <<>>
                /\ i' = 0
                /\ pc' = "scan"
                /\ UNCHANGED <<retKeys, retErr>>
    /\ UNCHANGED <<fileData, iters, tested, payload, topKeys, parsedData,
                   decodeOk, printArgs, out, source>>

\* main.go:40-42,69-71: one iteration where no marker begins
ScanSkip ==
    /\ pc = "scan"
    /\ i < Len(content)
    /\ ~Marker(content, i)
    /\ i' = i + 1
    /\ iters' = iters + 1
    /\ tested' = tested \cup {i}
    /\ UNCHANGED <<fileData, pc, content, keys, payload, retKeys, retErr,
                   topKeys, parsedData, decodeOk, printArgs, out, source>>

\* main.go:40-68: one iteration where a marker begins
ScanKey ==
    /\ pc = "scan"
    /\ i < Len(content)
    /\ Marker(content, i)
    /\ tested' = tested \cup {i}
    /\ LET j == ScanTo(content, ":", i + 2)
           numStr == Slice(content, i + 2, j)
           n == Atoi(numStr).n
       IN  IF j >= Len(content)
           THEN /\ Return(keys, "")
                /\ UNCHANGED <<i, keys, iters, payload>>
           ELSE IF LengthErr(numStr)
           THEN /\ Return(<<>>, "InvalidLength")
                /\ UNCHANGED <<i, keys, iters, payload>>
           ELSE IF j + 1 >= Len(content) \/ At(content, j + 1) # "\""
           THEN /\ Return(<<>>, "MalformedKey")
                /\ UNCHANGED <<i, keys, iters, payload>>
           ELSE IF Exceeds(content, j, n)
           THEN /\ Return(<<>>, "TruncatedKey")
                /\ UNCHANGED <<i, keys, iters, payload>>
           ELSE IF ~SliceOk(content, j + 2, j + 2 + n)
           THEN \* content[j+2 : j+2+n] panics: slice bounds out of range
                /\ pc' = "panic"
                /\ UNCHANGED <<i, keys, iters, payload, retKeys, retErr>>
           ELSE /\ keys' = Append(keys, Slice(content, j + 2, j + 2 + n))
                /\ payload' = payload \cup ((j + 2)..(j + 1 + n))
                /\ i' = Advance(j, n)
                /\ iters' = iters + 1
                /\ UNCHANGED <<pc, retKeys, retErr>>
    /\ UNCHANGED <<fileData, content, topKeys, parsedData, decodeOk,
                   printArgs, out, source>>

\* main.go:40,73: the loop condition fails
ScanReturn ==
    /\ pc = "scan"
    /\ i >= Len(content)
    /\ Return(keys, "")
    /\ UNCHANGED <<fileData, content, i, keys, iters, tested, payload,
                   topKeys, parsedData, decodeOk, printArgs, out, source>>

(***************************************************************************)
(* main, the --php block                                                   *)
(***************************************************************************)
\* main.go:267-270
PhpHeader ==
    /\ pc = "main"
    /\ out' = <<Line("header", 0, <<>>, <<>>, "")>>
    /\ pc' = "extract"
    /\ UNCHANGED <<fileData, content, i, keys, iters, tested, payload,
                   retKeys, retErr, topKeys, parsedData, decodeOk, printArgs,
                   source>>

\* the extraction error dropped instead of written
ErrorOut_Silent(o, err) == o

\* main.go:271-273
ErrorOut(o, err) ==
    IF err # "" THEN Append(o, Line("extract_error", 0, <<>>, <<>>, err)) ELSE o

\* main.go:270-273
MainExtracted ==
    /\ pc = "returned"
    /\ topKeys' = retKeys
    /\ out' = ErrorOut(out, retErr)
    /\ pc' = "unmarshal"
    /\ UNCHANGED <<fileData, content, i, keys, iters, tested, payload,
                   retKeys, retErr, parsedData, decodeOk, printArgs, source>>

\* main.go:275-276.  Whether the decoder accepts bytes after the top-level
\* value is the library's choice: both outcomes are allowed.
MainUnmarshal ==
    /\ pc = "unmarshal"
    /\ LET r == Unmarshal(fileData)
       IN  \E accept \in IF r.ok /\ r.next < Len(fileData) THEN BOOLEAN ELSE {TRUE} :
               /\ decodeOk' = (r.ok /\ accept)
               /\ parsedData' = IF r.ok /\ accept THEN r.v.m ELSE <<>>
    /\ pc' = "decoded"
    /\ UNCHANGED <<fileData, content, i, keys, iters, tested, payload,
                   retKeys, retErr, topKeys, printArgs, out, source>>

\* main.go:277-278
MainFail ==
    /\ pc = "decoded"
    /\ ~decodeOk
    /\ out' = Append(out, Line("decode_fail", 0, <<>>, <<>>, ""))
    /\ pc' = "finish"
    /\ UNCHANGED <<fileData, content, i, keys, iters, tested, payload,
                   retKeys, retErr, topKeys, parsedData, decodeOk, printArgs,
                   source>>

\* main.go:281-284
KeyOrder(ks) == [e \in 1..Len(ks) |-> TextVal(ks[e])]

\* main.go:279-289
MainPrint ==
    /\ pc = "decoded"
    /\ decodeOk
    /\ printArgs' = Append(printArgs, KeyOrder(topKeys))
    /\ \E buf \in printMapToBuffer(parsedData, 0, KeyOrder(topKeys)) :
           out' = out \o buf
    /\ pc' = "finish"
    /\ UNCHANGED <<fileData, content, i, keys, iters, tested, payload,
                   retKeys, retErr, topKeys, parsedData, decodeOk, source>>

\* main.go:290
MainFinish ==
    /\ pc = "finish"
    /\ out' = Append(out, Line("newline", 0, <<>>, <<>>, ""))
    /\ pc' = "done"
    /\ UNCHANGED <<fileData, content, i, keys, iters, tested, payload,
                   retKeys, retErr, topKeys, parsedData, decodeOk, printArgs,
                   source>>

Init ==
    /\ \/ source \in Sources /\ fileData = Serialize(source)
       \/ source = NoValue /\ fileData \in LengthInputs \cup BraceInputs \cup TrailingInputs
    /\ pc = "main"
    /\ content = <<>>
    /\ i = 0
    /\ keys = <<>>
    /\ iters = 0
    /\ tested = {}
    /\ payload = {}
    /\ retKeys = <<>>
    /\ retErr = ""
    /\ topKeys = <<>>
    /\ parsedData = <<>>
    /\ decodeOk = FALSE
    /\ printArgs = <<>>
    /\ out = <<>>

Next ==
    \/ PhpHeader
    \/ Begin
    \/ ScanSkip
    \/ ScanKey
    \/ ScanReturn
    \/ MainExtracted
    \/ MainUnmarshal
    \/ MainFail
    \/ MainPrint
    \/ MainFinish

Spec == Init /\ [][Next]_vars

(***************************************************************************)
(* printMapToBuffer called directly on a map and a key order               *)
(***************************************************************************)
InitPrint ==
    /\ parsedData \in PrintData
    /\ printArgs \in {<<o>> : o \in PrintOrders}
    /\ pc = "print_call"
    /\ fileData = <<>>
    /\ source = NoValue
    /\ content = <<>>
    /\ i = 0
    /\ keys = <<>>
    /\ iters = 0
    /\ tested = {}
    /\ payload = {}
    /\ retKeys = <<>>
    /\ retErr = ""
    /\ topKeys = <<>>
    /\ decodeOk = TRUE
    /\ out = <<>>

\* main.go:78-104
PrintCall ==
    /\ pc = "print_call"
    /\ out' \in printMapToBuffer(parsedData, 0, printArgs[1])
    /\ pc' = "print_done"
    /\ UNCHANGED <<fileData, content, i, keys, iters, tested, payload,
                   retKeys, retErr, topKeys, parsedData, decodeOk, printArgs,
                   source>>

NextPrint == PrintCall

SpecPrint == InitPrint /\ [][NextPrint]_vars

(***************************************************************************)
(* Properties                                                              *)
(***************************************************************************)
\* the input is a serialized container whose keys are distinct texts
TextKeyed ==
    /\ source.t = "a"
    /\ \A e \in 1..Len(source.m) : source.m[e].k.t = "s"
    /\ \A a, b \in 1..Len(source.m) : a # b => source.m[a].k # source.m[b].k

\* the keys the input declares, in declaration order
DeclaredKeys == [e \in 1..Len(source.m) |-> source.m[e].k.s]

IsTopLine(l) == l.indent = 0 /\ l.kind \in {"entry", "map"}

\* the key texts of the top-level lines of the output, in output order
TopLineKeys == LET top == SelectSeq(out, IsTopLine)
               IN  [e \in 1..Len(top) |-> top[e].key]

\* C1: for a valid container with N distinct text keys, extractTopLevelKeys
\* returns exactly those N keys in declaration order, without error.
C1_KeysAreDeclaredKeys ==
    (pc = "returned" /\ TextKeyed) => (retErr = "" /\ retKeys = DeclaredKeys)

\* C2: for a valid container with distinct text keys, the --php output holds
\* exactly one top-level line per entry, in declaration order.
C2_LinesInDeclarationOrder ==
    (pc = "done" /\ TextKeyed /\ decodeOk) => TopLineKeys = DeclaredKeys

\* C3: extractTopLevelKeys never reaches an out-of-range slice (a panic).
C3_NoPanic == pc # "panic"

\* C4: a length field that is not a non-negative decimal integer makes
\* extractTopLevelKeys return the invalid-length error and no keys.
C4_InvalidLength ==
    [][(/\ pc = "scan"
        /\ i < Len(content)
        /\ Marker(content, i)
        /\ ScanTo(content, ":", i + 2) < Len(content)
        /\ LET r == Atoi(Slice(content, i + 2, ScanTo(content, ":", i + 2)))
           IN  ~r.ok \/ r.n < 0)
       => (pc' = "returned" /\ retErr' = "InvalidLength" /\ retKeys' = <<>>)]_vars

\* the input has no "{", no "}", or its last "}" is not after its first "{"
NoContainer ==
    \/ \A k \in 1..Len(fileData) : fileData[k] # "{"
    \/ \A k \in 1..Len(fileData) : fileData[k] # "}"
    \/ \A a, b \in 1..Len(fileData) :
           (/\ fileData[a] = "{" /\ \A m \in 1..(a - 1) : fileData[m] # "{"
            /\ fileData[b] = "}" /\ \A m \in (b + 1)..Len(fileData) : fileData[m] # "}")
           => b <= a

\* the bytes strictly between the first "{" and the last "}"
Between ==
    LET a == CHOOSE k \in 1..Len(fileData) :
                 fileData[k] = "{" /\ \A m \in 1..(k - 1) : fileData[m] # "{"
        b == CHOOSE k \in 1..Len(fileData) :
                 fileData[k] = "}" /\ \A m \in (k + 1)..Len(fileData) : fileData[m] # "}"
    IN  [e \in 1..(b - a - 1) |-> fileData[a + e]]

\* C5: the malformed-container error, with an empty key list, is returned
\* exactly when the delimiters are missing or out of order; otherwise the
\* scanned content is exactly the bytes strictly between them.
C5_MalformedContainer ==
    (pc \notin {"main", "extract"}) =>
        /\ (retErr = "MalformedContainer") <=> NoContainer
        /\ retErr = "MalformedContainer" => retKeys = <<>>
        /\ ~NoContainer => content = Between

C5_Witness ==
    /\ pc = "returned"
    /\ retErr = "MalformedContainer"
    /\ \E a, b \in 1..Len(fileData) : a < b /\ fileData[a] = "}" /\ fileData[b] = "{"

\* C6: when both the extraction and the decoder accept the input, the key
\* order is no longer than the number of entries of the decoded container.
C6_OrderWithinEntries ==
    (pc = "decoded" /\ retErr = "" /\ decodeOk) => Len(topKeys) <= Len(parsedData)

\* the elements of the key order that are keys of the decoded map
PresentKeys == SelectSeq(topKeys, LAMBDA k : HasKey(parsedData, TextVal(k)))

\* C7: printMapToBuffer writes nothing for a key of the key order that is
\* not a key of the map and exactly one top-level entry for every other
\* element, in key-order sequence; so the entries written never outnumber
\* the key order and each names a key of the map.
C7_AbsentKeysSkipped ==
    (pc \in {"finish", "done"} /\ decodeOk) =>
        /\ TopLineKeys = PresentKeys
        /\ Len(TopLineKeys) <= Len(topKeys)
        /\ \A e \in 1..Len(TopLineKeys) : HasKey(parsedData, TextVal(TopLineKeys[e]))

C7_Witness ==
    /\ pc = "finish"
    /\ decodeOk
    /\ \E e \in 1..Len(topKeys) : ~HasKey(parsedData, TextVal(topKeys[e]))
    /\ \E e \in 1..Len(topKeys) : HasKey(parsedData, TextVal(topKeys[e]))
    /\ Len(TopLineKeys) < Len(topKeys)

IsErrorLine(l) == l.kind = "extract_error"

IsFailLine(l) == l.kind = "decode_fail"

\* C8: a failure of extractTopLevelKeys is written to the output and the
\* decoder still runs; if it succeeds printMapToBuffer is called with an
\* empty key order.  A decoder failure writes only the failure message and
\* printMapToBuffer is never called.
C8_ErrorPropagation ==
    /\ [][pc = "returned" => pc' = "unmarshal"]_vars
    /\ [](pc = "done" =>
            /\ retErr # "" => (/\ Len(SelectSeq(out, IsErrorLine)) = 1
                               /\ out[2] = Line("extract_error", 0, <<>>, <<>>, retErr))
            /\ (retErr # "" /\ decodeOk) => printArgs = << <<>> >>
            /\ ~decodeOk => (/\ printArgs = <<>>
                             /\ SelectSeq(out, IsTopLine) = <<>>
                             /\ Len(SelectSeq(out, IsFailLine)) = 1
                             /\ out[Len(out) - 1].kind = "decode_fail"))

C8_Witness ==
    /\ pc = "done"
    /\ retErr # ""
    /\ decodeOk
    /\ printArgs = << <<>> >>

\* the keys of the key order having the display form of some key of the map
SameDisplayKeys ==
    SelectSeq(printArgs[1],
              LAMBDA k : \E e \in 1..Len(parsedData) :
                             Display(parsedData[e].k) = Display(k))

\* the keys of the key order that are a key of the map, or whose
\* string-formatted form is a text key of the map
ExactOrTextKeys ==
    SelectSeq(printArgs[1],
              LAMBDA k : \E e \in 1..Len(parsedData) :
                             \/ parsedData[e].k = k
                             \/ parsedData[e].k = TextVal(Display(k)))

\* C9 as stated: a key resolves whenever it equals a map key or the two have
\* the same display form (text "5" finds integer 5 and integer 5 finds "5").
C9_SameDisplayResolves ==
    pc = "print_done" =>
        TopLineKeys = [e \in 1..Len(SameDisplayKeys) |-> Display(SameDisplayKeys[e])]

\* C9 as amended: a key resolves exactly when it equals a map key or its
\* string-formatted form is a text key of the map (integer 5 finds "5";
\* text "5" does not find integer 5).
C9_ExactOrTextResolves ==
    pc = "print_done" =>
        TopLineKeys = [e \in 1..Len(ExactOrTextKeys) |-> Display(ExactOrTextKeys[e])]

C9_Witness ==
    /\ pc = "print_done"
    /\ printArgs[1] = <<IntVal(5)>>
    /\ HasKey(parsedData, TextVal(<<"5">>))
    /\ ~HasKey(parsedData, IntVal(5))
    /\ Len(out) = 1

\* C10: every iteration of the scan loop moves the position forward: by one
\* byte where no marker begins, past the n payload bytes and the two bytes
\* after them where a key is recorded; payload bytes are never tested as
\* markers and the loop runs at most len(content) iterations.
C10_ScanAdvances ==
    /\ [][(pc = "scan" /\ pc' = "scan") =>
            /\ i' > i
            /\ ~(At(content, i) = "s" /\ i + 1 < Len(content)
                   /\ At(content, i + 1) = ":") => (i' = i + 1 /\ keys' = keys)
            /\ (At(content, i) = "s" /\ i + 1 < Len(content)
                   /\ At(content, i + 1) = ":") =>
                  LET j == ScanTo(content, ":", i + 2)
                      n == Atoi(Slice(content, i + 2, j)).n
                  IN  /\ n >= 0
                      /\ Len(keys') = Len(keys) + 1
                      /\ keys'[Len(keys')] = SubSeq(content, j + 3, j + 2 + n)
                      /\ i' = j + 2 + n + 2]_vars
    /\ [](tested \cap payload = {})
    /\ [](iters <= Len(content))

C10_Witness ==
    /\ pc = "scan"
    /\ Len(keys) >= 2
    /\ \E p \in payload : p + 1 \in payload /\ At(content, p) = "s" /\ At(content, p + 1) = ":"
    /\ iters >= 3

====
